---- MODULE Spec2Model ----
(***************************************************************************)
(* Gasto Efectivo (src/app.py): a Streamlit expense tracker over a hosted  *)
(* relational store with built-in authentication.                          *)
(*                                                                         *)
(* The state is the session's auth entry, the three tables of the signed-in*)
(* user (categories, budgets, expenses) and `view`, what the last script   *)
(* run did and showed.  Every action is one script run of the app: the     *)
(* router (src/app.py:391-394), the page that is open and the button that  *)
(* was clicked.  The store's answers that the code cannot control (a call  *)
(* that fails, the order of rows that compare equal under ORDER BY, the    *)
(* order of ties under a sort that is not stable) are choices.             *)
(*                                                                         *)
(* Python values: None is the empty tuple, a present value x is <<x>>; a   *)
(* str is the tuple of its blanks and its runs of other characters (" x "  *)
(* is <<" ", "x", " ">>); a float amount is an integer number of currency  *)
(* units.                                                                  *)
(*                                                                         *)
(* An expense's id is a key the store generates and only delete_expense    *)
(* reads; two expenses that agree on every other column are                *)
(* interchangeable.  The expenses table is therefore the bag of its rows,  *)
(* and deleting by id removes one copy of the row that carries the id.     *)
(* Categories are referred to by id and budgets are deleted by id: their   *)
(* rows keep it.                                                           *)
(***************************************************************************)
EXTENDS Integers, Sequences, FiniteSets, Bags, TLC

VARIABLES auth, categories, budgets, expenses, view

vars == <<auth, categories, budgets, expenses, view>>

\* Rows the expenses table may hold at once.
MaxExpenses == 2

\* Rows the categories table may hold at once.
MaxCategories == 2

None == <<>>

Some(x) == <<x>>

(***************************************************************************)
(* Dates                                                                   *)
(***************************************************************************)
D(y, m, d) == [year |-> y, month |-> m, day |-> d]

\* The calendar days the widgets are set to: the last day of February, the
\* first and the last day of March, the first day of April.
Dates == {D(2024, 2, 29), D(2024, 3, 1), D(2024, 3, 31), D(2024, 4, 1)}

\* date.today() of a run.
Todays == {D(2024, 3, 31), D(2024, 4, 1)}

month_start_keeps_day(d) == d

month_start(d) == D(d.year, d.month, 1)

is_leap(y) == (y % 4 = 0 /\ y % 100 # 0) \/ y % 400 = 0

days_in_month(y, m) ==
    IF m = 2 THEN (IF is_leap(y) THEN 29 ELSE 28)
    ELSE IF m \in {4, 6, 9, 11} THEN 30 ELSE 31

min2(a, b) == IF a <= b THEN a ELSE b

\* d + relativedelta(months=1): the day is clipped to the target month.
plus_one_month(d) ==
    LET y == IF d.month = 12 THEN d.year + 1 ELSE d.year
        m == IF d.month = 12 THEN 1 ELSE d.month + 1
    IN  D(y, m, min2(d.day, days_in_month(y, m)))

\* d - relativedelta(months=1)
minus_one_month(d) ==
    LET y == IF d.month = 1 THEN d.year - 1 ELSE d.year
        m == IF d.month = 1 THEN 12 ELSE d.month - 1
    IN  D(y, m, min2(d.day, days_in_month(y, m)))

\* d - relativedelta(days=1)
minus_one_day(d) ==
    IF d.day > 1 THEN D(d.year, d.month, d.day - 1)
    ELSE LET y == IF d.month = 1 THEN d.year - 1 ELSE d.year
             m == IF d.month = 1 THEN 12 ELSE d.month - 1
         IN  D(y, m, days_in_month(y, m))

\* str(d) of a datetime.date: the ISO text YYYY-MM-DD.
str_date(d) ==
    << d.year \div 1000, (d.year \div 100) % 10, (d.year \div 10) % 10, d.year % 10,
       "-", d.month \div 10, d.month % 10, "-", d.day \div 10, d.day % 10 >>

\* The store's reading of an ISO text as a value of a date column.
parse_date(s) ==
    D(s[1] * 1000 + s[2] * 100 + s[3] * 10 + s[4], s[6] * 10 + s[7], s[9] * 10 + s[10])

\* The store's order of two dates.
date_le(a, b) ==
    \/ a.year < b.year
    \/ a.year = b.year /\ a.month < b.month
    \/ a.year = b.year /\ a.month = b.month /\ a.day <= b.day

date_lt(a, b) == date_le(a, b) /\ a # b

(***************************************************************************)
(* Numbers and text                                                        *)
(***************************************************************************)
\* The numbers a caller may hand to float().
AnyAmounts == {-1, 0, 1, 2}

\* min_value=0.0 of both st.number_input amount widgets.
min_value == 0

number_input_unbounded(lowest) == AnyAmounts

\* What st.number_input(min_value=lowest) can return.
number_input(lowest) == {a \in AnyAmounts : a >= lowest}

\* float(x) of a number: the same number, sign kept.
float(x) == x

max2(a, b) == IF a >= b THEN a ELSE b

RECURSIVE lstrip(_)
lstrip(s) == IF s # <<>> /\ Head(s) = " " THEN lstrip(Tail(s)) ELSE s

RECURSIVE rstrip(_)
rstrip(s) ==
    IF s # <<>> /\ s[Len(s)] = " " THEN rstrip(SubSeq(s, 1, Len(s) - 1)) ELSE s

\* str.strip()
strip(s) == rstrip(lstrip(s))

\* What is typed into "Descripción (opcional)": nothing, one blank, " x ".
DescInputs == { <<>>, <<" ">>, <<" ", "x", " ">> }

(***************************************************************************)
(* Rows                                                                    *)
(***************************************************************************)
ids_of(tbl) == {r.id : r \in tbl}

\* A server-generated id: one that no row of the table and no reference
\* in `used` carries.
new_id(tbl, used) ==
    CHOOSE i \in 1..(Cardinality(tbl) + Cardinality(used) + 1) :
        /\ i \notin ids_of(tbl) \cup used
        /\ \A j \in 1..(i - 1) : j \in ids_of(tbl) \cup used

\* All orders of the rows of a finite set.
orderings(S) ==
    {f \in [1..Cardinality(S) -> S] : \A i, j \in 1..Cardinality(S) : i # j => f[i] # f[j]}

\* All orders of the rows of a bag.
orderings_of_bag(B) ==
    LET n == BagCardinality(B)
        S == BagToSet(B)
    IN  {f \in [1..n -> S] : \A r \in S : Cardinality({i \in 1..n : f[i] = r}) = CopiesIn(r, B)}

\* The rows of bag B that satisfy P, with their copies.
bag_where(B, P(_)) == [r \in {x \in BagToSet(B) : P(x)} |-> B[r]]

(***************************************************************************)
(* Session                                                                 *)
(***************************************************************************)
\* st.session_state.get("auth", {}).get("user") is not None
is_logged_in(a) == a # None /\ a[1].user # None

\* st.session_state.auth after set_auth(resp)
set_auth(resp) == Some([user |-> resp.user, session |-> resp.session])

(***************************************************************************)
(* Data access: budgets                                                    *)
(***************************************************************************)
upsert_budget_insert_only(tbl, budget_month, amount) ==
    tbl \cup {[id |-> new_id(tbl, {}), budget_month |-> str_date(budget_month),
               amount |-> float(amount)]}

\* The budgets table after upsert(..., on_conflict="user_id,budget_month").
upsert_budget(tbl, budget_month, amount) ==
    LET key == str_date(budget_month)
        hit == {r \in tbl : parse_date(r.budget_month) = parse_date(key)}
    IN  IF hit # {}
        THEN {IF r \in hit THEN [r EXCEPT !.amount = float(amount)] ELSE r : r \in tbl}
        ELSE tbl \cup {[id |-> new_id(tbl, {}), budget_month |-> key,
                        amount |-> float(amount)]}

fetch_budget_month_raising(tbl, budget_month, store_ok) ==
    IF store_ok
    THEN LET data == {r \in tbl : parse_date(r.budget_month) = parse_date(str_date(budget_month))}
         IN  IF data = {} THEN {[raised |-> FALSE, error |-> FALSE, value |-> None]}
             ELSE {[raised |-> FALSE, error |-> FALSE, value |-> Some(r)] : r \in data}
    ELSE {[raised |-> TRUE, error |-> FALSE, value |-> None]}

\* The outcomes of fetch_budget_month: the value returned, whether st.error
\* was called, whether an exception left the function.
fetch_budget_month(tbl, budget_month, store_ok) ==
    IF store_ok
    THEN LET data == {r \in tbl : parse_date(r.budget_month) = parse_date(str_date(budget_month))}
         IN  IF data = {} THEN {[raised |-> FALSE, error |-> FALSE, value |-> None]}
             ELSE {[raised |-> FALSE, error |-> FALSE, value |-> Some(r)] : r \in data}
    ELSE {[raised |-> FALSE, error |-> TRUE, value |-> None]}

delete_budget(tbl, budget_id) == {r \in tbl : r.id # budget_id}

\* float(current["amount"]) if current else 0.0
amount_or_zero(current) == IF current # None THEN float(current[1].amount) ELSE 0

(***************************************************************************)
(* Data access: expenses                                                   *)
(***************************************************************************)
expense_row(expense_date, amount, category_id, description) ==
    [expense_date |-> expense_date, amount |-> amount, category_id |-> category_id,
     description |-> description]

\* The expenses table after add_expense's insert.
add_expense(tbl, expense_date, amount, category_id, description) ==
    tbl (+) SetToBag({expense_row(str_date(expense_date), float(amount), category_id,
                                  IF description # <<>> THEN Some(strip(description))
                                  ELSE None)})

\* order("expense_date", desc=True)
is_date_descending(s) ==
    \A i \in 1..(Len(s) - 1) :
        date_le(parse_date(s[i + 1].expense_date), parse_date(s[i].expense_date))

fetch_expenses_exclusive(tbl, date_from, date_to) ==
    LET in_range(r) ==
            /\ date_le(parse_date(str_date(date_from)), parse_date(r.expense_date))
            /\ date_lt(parse_date(r.expense_date), parse_date(str_date(date_to)))
    IN  {s \in orderings_of_bag(bag_where(tbl, in_range)) : is_date_descending(s)}

\* The rows that pass .gte("expense_date", str(date_from)) and
\* .lte("expense_date", str(date_to)).
select_expenses(tbl, date_from, date_to) ==
    LET in_range(r) ==
            /\ date_le(parse_date(str_date(date_from)), parse_date(r.expense_date))
            /\ date_le(parse_date(r.expense_date), parse_date(str_date(date_to)))
    IN  bag_where(tbl, in_range)

\* The row lists fetch_expenses may return: the selected rows under
\* order("expense_date", desc=True); rows of one date come in any order.
fetch_expenses(tbl, date_from, date_to) ==
    {s \in orderings_of_bag(select_expenses(tbl, date_from, date_to)) : is_date_descending(s)}

\* The expenses table after the delete of the id of one copy of `row`.
delete_expense(tbl, row) == tbl (-) SetToBag({row})

\* sum(float(x["amount"]) for x in rows) if rows else 0.0
RECURSIVE total_spent_of(_)
total_spent_of(rows) ==
    IF rows = <<>> THEN 0 ELSE float(rows[1].amount) + total_spent_of(Tail(rows))

remaining_unfloored(budget_amount, total_spent) == budget_amount - total_spent

\* max(budget_amount - total_spent, 0.0)
remaining_of(budget_amount, total_spent) == max2(budget_amount - total_spent, 0)

(***************************************************************************)
(* Data access: categories, and the category name of an expense            *)
(***************************************************************************)
\* The name shown for an expense without a category.
SinCategoria == <<"Sin", " ", "categoría">>

\* The first entry of the expenses page's category selectbox.
NoCategoryOption == <<"(Sin", " ", "categoría)">>

\* What is typed into "Nombre": one blank, a name, a name between blanks.
NameInputs == { <<" ">>, <<"Comida">>, <<" ", "Taxi", " ">> }

\* The category names of a report, in the order str compares them.
NameOrder == << <<"Comida">>, SinCategoria, <<"Taxi">> >>

name_rank(n) == CHOOSE i \in 1..Len(NameOrder) : NameOrder[i] = n

\* The ids the expenses refer to.
referenced(exps) == {r.category_id[1] : r \in {x \in BagToSet(exps) : x.category_id # None}}

\* The categories table after add_category: nothing for a blank name.
add_category(tbl, exps, name) ==
    IF strip(name) = <<>> THEN tbl
    ELSE tbl \cup {[id |-> new_id(tbl, referenced(exps)), name |-> strip(name)]}

\* The row lists fetch_categories may return: order("name").
fetch_categories(tbl) ==
    {s \in orderings(tbl) :
        \A i \in 1..(Len(s) - 1) : name_rank(s[i].name) <= name_rank(s[i + 1].name)}

delete_category(tbl, category_id) == {r \in tbl : r.id # category_id}

\* What the store does to the expenses of a deleted category.  The page says
\* "Los gastos quedan sin categoría si estaban asociados": the reference is
\* cleared, or, without a foreign key, left pointing at nothing.
OnDelete == {"set null", "no action"}

expenses_after_category_delete(exps, category_id, on_delete) ==
    LET cleared(r) ==
            IF r.category_id = Some(category_id) THEN [r EXCEPT !.category_id = None] ELSE r
    IN  IF on_delete = "set null" THEN BagOfAll(cleared, exps) ELSE exps

\* cat_map of the expenses page: label -> category id, a later row of the
\* same name replacing an earlier one.
cat_map(cats) ==
    [n \in {NoCategoryOption} \cup {cats[i].name : i \in 1..Len(cats)} |->
        IF \E i \in 1..Len(cats) : cats[i].name = n
        THEN LET last == CHOOSE i \in 1..Len(cats) :
                            /\ cats[i].name = n
                            /\ \A j \in (i + 1)..Len(cats) : cats[j].name # n
             IN  Some(cats[last].id)
        ELSE None]

category_of_raising(cats, category_id) ==
    IF category_id # None /\ \E i \in 1..Len(cats) : cats[i].id = category_id[1]
    THEN LET last == CHOOSE i \in 1..Len(cats) :
                        /\ cats[i].id = category_id[1]
                        /\ \A j \in (i + 1)..Len(cats) : cats[j].id # category_id[1]
         IN  cats[last].name
    ELSE <<"KeyError">>

\* cat_lookup.get(category_id, "Sin categoría"), and map(cat_lookup).fillna(...)
category_of(cats, category_id) ==
    IF category_id # None /\ \E i \in 1..Len(cats) : cats[i].id = category_id[1]
    THEN LET last == CHOOSE i \in 1..Len(cats) :
                        /\ cats[i].id = category_id[1]
                        /\ \A j \in (i + 1)..Len(cats) : cats[j].id # category_id[1]
         IN  cats[last].name
    ELSE SinCategoria

\* The fetched rows with their "category" column.
enrich(cats, rows) ==
    [i \in 1..Len(rows) |->
        [expense_date |-> rows[i].expense_date, amount |-> rows[i].amount,
         category_id |-> rows[i].category_id, description |-> rows[i].description,
         category |-> category_of(cats, rows[i].category_id)]]

RECURSIVE amount_of_category(_, _)
amount_of_category(rows, name) ==
    IF rows = <<>> THEN 0
    ELSE (IF rows[1].category = name THEN float(rows[1].amount) ELSE 0)
         + amount_of_category(Tail(rows), name)

\* df.groupby("category", as_index=False)["amount"].sum(): one row per
\* category name, in the order of the names.
groupby_sum(rows) ==
    LET names == {rows[i].category : i \in 1..Len(rows)}
        entries == {[category |-> n, amount |-> amount_of_category(rows, n)] : n \in names}
    IN  CHOOSE s \in orderings(entries) :
            \A i \in 1..(Len(s) - 1) : name_rank(s[i].category) < name_rank(s[i + 1].category)

sort_values_ascending(grp) ==
    {s \in orderings({grp[i] : i \in 1..Len(grp)}) :
        \A i \in 1..(Len(s) - 1) : s[i].amount <= s[i + 1].amount}

\* The frames sort_values("amount", ascending=False) may return.  Its sort is
\* the default kind, quicksort, which is not stable: rows of equal amounts
\* come in any order.
sort_values_descending(grp) ==
    {s \in orderings({grp[i] : i \in 1..Len(grp)}) :
        \A i \in 1..(Len(s) - 1) : s[i].amount >= s[i + 1].amount}

(***************************************************************************)
(* Script runs: the sign-in form and the budget page                       *)
(***************************************************************************)
Init ==
    /\ auth = None
    /\ categories = {}
    /\ budgets = {}
    /\ expenses = EmptyBag
    /\ view = [op |-> "start"]

\* "Entrar": sign_in_with_password, set_auth on success, st.error on an exception.
sign_in_always_sets(a, accepted, resp) == set_auth(resp)

sign_in(a, accepted, resp) == IF accepted THEN set_auth(resp) ELSE a

\* "Crear cuenta": sign_up, set_auth on success, st.error on an exception.
sign_up(a, accepted, resp) == IF accepted THEN set_auth(resp) ELSE a

\* What the Identity Provider answers to an accepted attempt; a sign-up's
\* session is null while the e-mail is unconfirmed.
SignInResponses == {[user |-> Some("ana"), session |-> Some("token")]}

SignUpResponses ==
    {[user |-> Some("ana"), session |-> Some("token")], [user |-> Some("ana"), session |-> None]}

SignIn ==
    /\ ~is_logged_in(auth)
    /\ \E accepted \in BOOLEAN, resp \in SignInResponses :
        /\ auth' = sign_in(auth, accepted, resp)
        /\ view' = [op |-> "sign_in", accepted |-> accepted, before |-> auth]
    /\ UNCHANGED <<categories, budgets, expenses>>

SignUp ==
    /\ ~is_logged_in(auth)
    /\ \E accepted \in BOOLEAN, resp \in SignUpResponses :
        /\ auth' = sign_up(auth, accepted, resp)
        /\ view' = [op |-> "sign_up", accepted |-> accepted, before |-> auth]
    /\ UNCHANGED <<categories, budgets, expenses>>

\* "Cerrar sesión"
SignOut ==
    /\ is_logged_in(auth)
    /\ auth' = Some([user |-> None, session |-> None])
    /\ view' = [op |-> "sign_out"]
    /\ UNCHANGED <<categories, budgets, expenses>>

\* The budget page is rendered for a day of `dates`.
BudgetView(dates) ==
    /\ is_logged_in(auth)
    /\ \E selected \in dates, store_ok \in BOOLEAN :
        LET bmonth == month_start(selected)
        IN  \E current \in fetch_budget_month(budgets, bmonth, store_ok) :
                view' = IF current.raised
                        THEN [op |-> "exception", source |-> "fetch_budget_month"]
                        ELSE [op |-> "budget_view", bmonth |-> bmonth, store_ok |-> store_ok,
                              current |-> current.value, error_shown |-> current.error,
                              budget_amount |-> amount_or_zero(current.value)]
    /\ UNCHANGED <<auth, categories, budgets, expenses>>

\* "Guardar/Actualizar" on the budget page, a day of `dates` selected.
BudgetSave(dates) ==
    /\ is_logged_in(auth)
    /\ \E selected \in dates, amount \in number_input(min_value),
          store_ok \in BOOLEAN, write_ok \in BOOLEAN :
        LET bmonth == month_start(selected)
        IN  \E current \in fetch_budget_month(budgets, bmonth, store_ok) :
                IF current.raised
                THEN /\ view' = [op |-> "exception", source |-> "fetch_budget_month"]
                     /\ UNCHANGED budgets
                ELSE IF write_ok
                THEN /\ budgets' = upsert_budget(budgets, bmonth, amount)
                     /\ view' = [op |-> "budget_save", ok |-> TRUE, selected |-> selected,
                                 bmonth |-> bmonth, amount |-> amount,
                                 current |-> current.value]
                ELSE /\ view' = [op |-> "budget_save", ok |-> FALSE]
                     /\ UNCHANGED budgets
    /\ UNCHANGED <<auth, categories, expenses>>

\* "Eliminar presupuesto del mes": offered only when a budget was fetched.
BudgetDelete(dates) ==
    /\ is_logged_in(auth)
    /\ \E selected \in dates, write_ok \in BOOLEAN :
        LET bmonth == month_start(selected)
        IN  \E current \in fetch_budget_month(budgets, bmonth, TRUE) :
                /\ ~current.raised
                /\ current.value # None
                /\ budgets' = IF write_ok THEN delete_budget(budgets, current.value[1].id)
                              ELSE budgets
                /\ view' = [op |-> "budget_delete", ok |-> write_ok, bmonth |-> bmonth]
    /\ UNCHANGED <<auth, categories, expenses>>

\* The dashboard is rendered.
Dashboard ==
    /\ is_logged_in(auth)
    /\ \E today \in Todays, store_ok \in BOOLEAN :
        LET bmonth == month_start(today)
            start == bmonth
            end == minus_one_day(plus_one_month(bmonth))
            prev_month_start == minus_one_month(bmonth)
            prev_month_end == minus_one_day(bmonth)
        IN  \E b \in fetch_budget_month(budgets, bmonth, store_ok) :
                IF b.raised
                THEN view' = [op |-> "exception", source |-> "fetch_budget_month"]
                ELSE \/ view' = [op |-> "exception", source |-> "fetch_expenses"]
                     \/ \E rows \in fetch_expenses(expenses, start, end),
                        prev_rows \in fetch_expenses(expenses, prev_month_start, prev_month_end) :
                        LET budget_amount == amount_or_zero(b.value)
                            total_spent == total_spent_of(rows)
                        IN  view' = [op |-> "dashboard", today |-> today, bmonth |-> bmonth,
                                     store_ok |-> store_ok, current |-> b.value,
                                     error_shown |-> b.error,
                                     budget_amount |-> budget_amount,
                                     total_spent |-> total_spent,
                                     remaining |-> remaining_of(budget_amount, total_spent),
                                     prev_total_spent |-> total_spent_of(prev_rows)]
    /\ UNCHANGED <<auth, categories, budgets, expenses>>

\* "Agregar categoría"
CategoryAdd(names) ==
    /\ is_logged_in(auth)
    /\ \E new_name \in names, write_ok \in BOOLEAN :
        /\ strip(new_name) # <<>> => Cardinality(categories) < MaxCategories
        /\ categories' = IF write_ok THEN add_category(categories, expenses, new_name)
                         ELSE categories
        /\ view' = [op |-> "category_add", ok |-> write_ok]
    /\ UNCHANGED <<auth, budgets, expenses>>

\* "Eliminar definitivamente": one of the listed categories.
CategoryDelete ==
    /\ is_logged_in(auth)
    /\ \E cats \in fetch_categories(categories) :
        \E i \in 1..Len(cats), write_ok \in BOOLEAN, on_delete \in OnDelete :
            IF write_ok
            THEN /\ categories' = delete_category(categories, cats[i].id)
                 /\ expenses' = expenses_after_category_delete(expenses, cats[i].id, on_delete)
                 /\ view' = [op |-> "category_delete", ok |-> TRUE, id |-> cats[i].id]
            ELSE /\ view' = [op |-> "category_delete", ok |-> FALSE]
                 /\ UNCHANGED <<categories, expenses>>
    /\ UNCHANGED <<auth, budgets>>

\* "Agregar gasto" on the expenses page.
ExpenseAdd(dates, amounts, descriptions) ==
    /\ is_logged_in(auth)
    /\ BagCardinality(expenses) < MaxExpenses
    /\ \E cats \in fetch_categories(categories) :
        \E exp_date \in dates, amount \in amounts, cat_name \in DOMAIN cat_map(cats),
           desc \in descriptions, write_ok \in BOOLEAN :
            IF write_ok
            THEN /\ expenses' = add_expense(expenses, exp_date, amount,
                                            cat_map(cats)[cat_name], desc)
                 /\ view' = [op |-> "expense_add", ok |-> TRUE, exp_date |-> exp_date,
                             amount |-> amount, desc |-> desc]
            ELSE /\ view' = [op |-> "expense_add", ok |-> FALSE]
                 /\ UNCHANGED expenses
    /\ UNCHANGED <<auth, categories, budgets>>

\* The expenses page lists the expenses between two days of `dates`.
ExpenseList(dates) ==
    /\ is_logged_in(auth)
    /\ \/ view' = [op |-> "exception", source |-> "fetch_expenses"]
       \/ \E cats \in fetch_categories(categories), dfrom \in dates, dto \in dates :
            \E rows \in fetch_expenses(expenses, dfrom, dto) :
                view' = [op |-> "expense_list", dfrom |-> dfrom, dto |-> dto,
                         rows |-> IF rows = <<>> THEN <<>> ELSE enrich(cats, rows)]
    /\ UNCHANGED <<auth, categories, budgets, expenses>>

\* "Eliminar gasto": one of the expenses listed between two days of `dates`.
ExpenseDelete(dates) ==
    /\ is_logged_in(auth)
    /\ LET listed == UNION {BagToSet(select_expenses(expenses, dfrom, dto)) :
                                dfrom \in dates, dto \in dates}
       IN  \E row \in listed, write_ok \in BOOLEAN :
            /\ expenses' = IF write_ok THEN delete_expense(expenses, row) ELSE expenses
            /\ view' = [op |-> "expense_delete", ok |-> write_ok]
    /\ UNCHANGED <<auth, categories, budgets>>

\* The reports page for the expenses between two days of `dates`.
Reports(dates) ==
    /\ is_logged_in(auth)
    /\ \/ view' = [op |-> "exception", source |-> "fetch_expenses"]
       \/ \E dfrom \in dates, dto \in dates :
            \E rows \in fetch_expenses(expenses, dfrom, dto) :
                IF rows = <<>>
                THEN view' = [op |-> "reports", dfrom |-> dfrom, dto |-> dto, grp |-> <<>>]
                ELSE \E cats \in fetch_categories(categories) :
                        \E grp \in sort_values_descending(groupby_sum(enrich(cats, rows))) :
                            view' = [op |-> "reports", dfrom |-> dfrom, dto |-> dto,
                                     grp |-> grp]
    /\ UNCHANGED <<auth, categories, budgets, expenses>>

(***************************************************************************)
(* Sessions.  A session is checked page by page, so that the tables stay   *)
(* small: each specification below is the router, the sign-in form and the *)
(* pages named, with the widgets that do not matter to them left alone.    *)
(***************************************************************************)
March31 == {D(2024, 3, 31)}

NextAuth ==
    \/ SignIn
    \/ SignUp
    \/ SignOut
    \/ CategoryAdd(NameInputs)
    \/ CategoryDelete

\* Signing in, up and out, and the categories page.
SpecAuth == Init /\ [][NextAuth]_vars

NextBudget ==
    \/ SignIn
    \/ BudgetView(Dates)
    \/ BudgetSave(Dates)
    \/ BudgetDelete(Dates)
    \/ Dashboard

\* The budget page and the dashboard.
SpecBudget == Init /\ [][NextBudget]_vars

NextExpenses ==
    \/ SignIn
    \/ ExpenseAdd(Dates, {1, 2}, {<<>>})
    \/ ExpenseList(Dates)
    \/ ExpenseDelete(Dates)

\* The expenses page, expenses of 1 or 2 without description.
SpecExpenses == Init /\ [][NextExpenses]_vars

NextDescriptions ==
    \/ SignIn
    \/ ExpenseAdd(Dates, {1}, DescInputs)
    \/ ExpenseList(Dates)
    \/ ExpenseDelete(Dates)

\* The expenses page, expenses of 1 with every description.
SpecDescriptions == Init /\ [][NextDescriptions]_vars

NextDashboard ==
    \/ SignIn
    \/ BudgetSave(March31)
    \/ ExpenseAdd(Dates, number_input(min_value), {<<>>})
    \/ ExpenseDelete(Dates)
    \/ Dashboard

\* The dashboard, with the budget of March and expenses without description.
SpecDashboard == Init /\ [][NextDashboard]_vars

NextCategories ==
    \/ SignIn
    \/ CategoryAdd(NameInputs)
    \/ CategoryDelete
    \/ ExpenseAdd(March31, {1}, {<<>>})
    \/ ExpenseList(March31)
    \/ Reports(March31)

\* The categories page, and expenses of 1 dated March 31 on the expenses and
\* reports pages.
SpecCategories == Init /\ [][NextCategories]_vars

NextReports ==
    \/ SignIn
    \/ CategoryAdd(NameInputs)
    \/ ExpenseAdd(March31, {1, 2}, {<<>>})
    \/ ExpenseDelete(March31)
    \/ Reports(March31)

\* The reports page, with expenses of 1 or 2 dated March 31.
SpecReports == Init /\ [][NextReports]_vars

(***************************************************************************)
(* Properties of the budget page (SpecBudget)                              *)
(***************************************************************************)
same_month(a, b) == a.year = b.year /\ a.month = b.month

\* C1: after any upserts and deletes the budgets table holds at most one row
\* per month key, and after upsertBudget(m, a) the one row of month m
\* carries amount a: the later upsert overwrites, it neither adds a row nor
\* fails.
C1_OneRowPerMonthLatestAmount ==
    /\ \A r1, r2 \in budgets : r1.budget_month = r2.budget_month => r1 = r2
    /\ (view.op = "budget_save" /\ view.ok) =>
            \E r \in budgets :
                /\ parse_date(r.budget_month) = view.bmonth
                /\ r.amount = view.amount
                /\ \A q \in budgets : parse_date(q.budget_month) = view.bmonth => q = r

\* An upsert that found a row of its month with another amount.
C1_Overwrote ==
    /\ view.op = "budget_save"
    /\ view.ok
    /\ view.current # None
    /\ view.current[1].amount # view.amount
    /\ Cardinality(budgets) > 1

\* C4 as stated: upsert_budget itself normalizes its month argument, so that
\* whatever date it is called with, every budget_month of the table it
\* leaves is a first of a month.
C4_UpsertNormalizesItsArgument ==
    \A d \in Dates, a \in number_input(min_value) :
        \A r \in upsert_budget(budgets, d, a) : parse_date(r.budget_month).day = 1

\* C4, amended: upsert_budget writes str(budget_month) as it is given; the
\* budget page passes month_start(selected).  So every budget saved through
\* the page is keyed on the first day of the month of the selected day, and
\* two saves with different days of one month address the same row.
C4_PageSavesUnderFirstOfMonth ==
    /\ \A r \in budgets : parse_date(r.budget_month).day = 1
    /\ \A r1, r2 \in budgets :
            same_month(parse_date(r1.budget_month), parse_date(r2.budget_month)) => r1 = r2
    /\ (view.op = "budget_save" /\ view.ok) =>
            \E r \in budgets :
                /\ parse_date(r.budget_month) = D(view.selected.year, view.selected.month, 1)
                /\ r.amount = view.amount

\* A save with the last day of a month selected, onto the row an earlier
\* save of that month left.
C4_LastDaySaveHitsTheMonthsRow ==
    /\ view.op = "budget_save"
    /\ view.ok
    /\ view.selected.day = 31
    /\ view.current # None
    /\ view.current[1].budget_month = str_date(D(2024, 3, 1))
    /\ Cardinality(budgets) = 1

C7_Outcome ==
    /\ view.op = "exception" => view.source # "fetch_budget_month"
    /\ view.op \in {"budget_view", "dashboard"} =>
        LET rows == {r \in budgets : parse_date(r.budget_month) = view.bmonth}
        IN  /\ ~view.store_ok =>
                /\ view.error_shown
                /\ view.current = None
                /\ view.budget_amount = 0
            /\ view.store_ok =>
                /\ ~view.error_shown
                /\ IF rows = {} THEN view.current = None /\ view.budget_amount = 0
                   ELSE /\ view.current # None
                        /\ view.current[1] \in rows
                        /\ view.budget_amount = view.current[1].amount

\* C7: fetchBudget never lets a store failure out: on a failure it reports
\* the error and returns "not found", and the caller goes on with amount 0;
\* on success it returns the row of exactly that month, or "not found" when
\* there is none; and a run that only fetches leaves the tables as they were.
C7_FetchBudgetDegrades ==
    /\ []C7_Outcome
    /\ [][view'.op \in {"budget_view", "dashboard"} =>
            UNCHANGED <<categories, budgets, expenses>>]_vars

\* The dashboard shows 0 although the month has a budget: the fetch failed.
C7_FailureShownAsZero ==
    /\ view.op = "dashboard"
    /\ ~view.store_ok
    /\ view.error_shown
    /\ view.budget_amount = 0
    /\ \E r \in budgets : parse_date(r.budget_month) = view.bmonth /\ r.amount > 0

(***************************************************************************)
(* Properties of the expenses page (SpecExpenses, SpecDescriptions)        *)
(***************************************************************************)
\* A calendar day as the number YYYYMMDD, and the same of an ISO text.
day_number(d) == d.year * 10000 + d.month * 100 + d.day

iso_number(s) ==
    s[1] * 10000000 + s[2] * 1000000 + s[3] * 100000 + s[4] * 10000
    + s[6] * 1000 + s[7] * 100 + s[9] * 10 + s[10]

\* A listed row without its "category" column.
as_stored(r) == expense_row(r.expense_date, r.amount, r.category_id, r.description)

\* C2: fetchExpenses(dateFrom, dateTo) returns exactly the stored expenses
\* with dateFrom <= expense_date <= dateTo, both bounds included, an expense
\* one day outside either bound left out, in descending order of date.
C2_FetchIsInclusiveAndDescending ==
    view.op = "expense_list" =>
        LET got == view.rows
            wanted(r) == /\ day_number(view.dfrom) <= iso_number(r.expense_date)
                         /\ iso_number(r.expense_date) <= day_number(view.dto)
        IN  /\ \A i \in 1..Len(got) : as_stored(got[i]) \in BagToSet(expenses)
            /\ \A r \in BagToSet(expenses) :
                    Cardinality({i \in 1..Len(got) : as_stored(got[i]) = r})
                        = IF wanted(r) THEN CopiesIn(r, expenses) ELSE 0
            /\ \A i, j \in 1..Len(got) :
                    i < j => iso_number(got[i].expense_date) >= iso_number(got[j].expense_date)

\* March listed: the expense of March 31 is in, the one of April 1 is not.
C2_LastDayInNextDayOut ==
    /\ view.op = "expense_list"
    /\ view.dfrom = D(2024, 3, 1)
    /\ view.dto = D(2024, 3, 31)
    /\ Len(view.rows) = 1
    /\ view.rows[1].expense_date = str_date(D(2024, 3, 31))
    /\ \E r \in BagToSet(expenses) : r.expense_date = str_date(D(2024, 4, 1))

\* C6: addExpense stores the description trimmed, and null whenever it is
\* empty after trimming, a description of blanks included; no stored
\* description is the empty string.
C6_DescriptionTrimmedOrNull ==
    /\ \A r \in BagToSet(expenses) : r.description # Some(<<>>)
    /\ (view.op = "expense_add" /\ view.ok) =>
            \E r \in BagToSet(expenses) :
                r.description = IF strip(view.desc) = <<>> THEN None
                                ELSE Some(strip(view.desc))

(***************************************************************************)
(* Properties of the dashboard (SpecDashboard)                             *)
(***************************************************************************)
\* C5 as stated: add_expense and upsert_budget themselves coerce the amount,
\* so that whatever number they are called with, every amount of the table
\* they leave is >= 0.
C5_WritesCoerceToNonNegative ==
    \A a \in AnyAmounts, d \in Dates :
        /\ \A r \in BagToSet(add_expense(expenses, d, a, None, <<>>)) : r.amount >= 0
        /\ \A r \in upsert_budget(budgets, d, a) : r.amount >= 0

\* C5, amended: add_expense and upsert_budget store float(amount), sign
\* kept; both forms read the amount from st.number_input(min_value=0.0).
\* So after any sequence of submissions of the two forms every stored
\* expense amount and every stored budget amount is >= 0, and is the number
\* the form held.
C5_FormAmountsStoredNonNegative ==
    /\ \A r \in BagToSet(expenses) : r.amount >= 0
    /\ \A r \in budgets : r.amount >= 0
    /\ (view.op = "expense_add" /\ view.ok) =>
            \E r \in BagToSet(expenses) :
                r.amount = view.amount /\ r.expense_date = str_date(view.exp_date)
    /\ (view.op = "budget_save" /\ view.ok) => \E r \in budgets : r.amount = view.amount

\* An expense of 0, the least the form takes, stored beside a budget.
C5_LeastAmountStored ==
    /\ view.op = "expense_add"
    /\ view.ok
    /\ view.amount = 0
    /\ \E r \in BagToSet(expenses) : r.amount = 0
    /\ \E r \in budgets : r.amount >= 0

RECURSIVE bag_amount(_)
bag_amount(B) ==
    IF BagToSet(B) = {} THEN 0
    ELSE LET r == CHOOSE x \in BagToSet(B) : TRUE
         IN  r.amount * B[r] + bag_amount([x \in BagToSet(B) \ {r} |-> B[x]])

\* What the stored expenses of the month of `today` add up to.
spent_in_month_of(today) ==
    LET in_month(r) == iso_number(r.expense_date) \div 100 = day_number(today) \div 100
    IN  bag_amount(bag_where(expenses, in_month))

C8_SpentAndRemaining ==
    /\ view.total_spent = spent_in_month_of(view.today)
    /\ view.remaining >= 0
    /\ view.total_spent <= view.budget_amount =>
            view.remaining = view.budget_amount - view.total_spent
    /\ view.total_spent > view.budget_amount => view.remaining = 0

\* C8 as stated: on the dashboard, budget is the amount of the current
\* month's budget, or 0 when none is set; spent is the sum of the amounts of
\* the expenses of the current month; remaining = max(budget - spent, 0).
C8_SnapshotAsStated ==
    view.op = "dashboard" =>
        LET rows == {r \in budgets : same_month(parse_date(r.budget_month), view.today)}
        IN  /\ rows = {} => view.budget_amount = 0
            /\ \A r \in rows : view.budget_amount = r.amount
            /\ C8_SpentAndRemaining

\* C8, amended: budget is the amount of the current month's budget, or 0
\* when none is set or when fetch_budget_month failed and returned None; spent
\* is the sum of the amounts of the expenses of the current month; remaining
\* = max(budget - spent, 0), never negative.
C8_Snapshot ==
    view.op = "dashboard" =>
        LET rows == {r \in budgets : same_month(parse_date(r.budget_month), view.today)}
        IN  /\ (rows = {} \/ ~view.store_ok) => view.budget_amount = 0
            /\ view.store_ok => \A r \in rows : view.budget_amount = r.amount
            /\ C8_SpentAndRemaining

\* More was spent in the month than its budget: nothing remains.
C8_Overspent ==
    /\ view.op = "dashboard"
    /\ view.budget_amount > 0
    /\ view.total_spent > view.budget_amount
    /\ view.remaining = 0
    /\ BagCardinality(expenses) > BagCardinality(select_expenses(expenses, view.bmonth, view.today))

(***************************************************************************)
(* Properties of the categories and reports pages                          *)
(***************************************************************************)
\* The name an expense is shown under, read off the categories table.
shown_name(r) ==
    IF r.category_id # None /\ r.category_id[1] \in ids_of(categories)
    THEN (CHOOSE c \in categories : c.id = r.category_id[1]).name
    ELSE SinCategoria

without_category(r) == [expense_date |-> r.expense_date, amount |-> r.amount,
                        description |-> r.description]

C3_Names ==
    /\ view.op = "expense_list" =>
            \A i \in 1..Len(view.rows) :
                /\ view.rows[i].category \in {c.name : c \in categories} \cup {SinCategoria}
                /\ view.rows[i].category = shown_name(view.rows[i])
    /\ view.op = "reports" =>
            \A i \in 1..Len(view.grp) :
                view.grp[i].category \in {c.name : c \in categories} \cup {SinCategoria}

C3_Delete ==
    (view'.op = "category_delete" /\ view'.ok) =>
        /\ view'.id \notin ids_of(categories')
        /\ BagOfAll(without_category, expenses') = BagOfAll(without_category, expenses)
        /\ \A r \in BagToSet(expenses') :
                \/ r \in BagToSet(expenses)
                \/ r.category_id = None /\ [r EXCEPT !.category_id = Some(view'.id)] \in BagToSet(expenses)

\* C3: deleteCategory removes no expense: the expenses of the deleted
\* category are still there to fetch, and the name attached to them, as to
\* any expense whose category_id is null or resolves to no category, is
\* "Sin categoría", with no error; every attached name is an existing
\* category's name or that label.
C3_DeleteKeepsExpensesUncategorized ==
    /\ []C3_Names
    /\ [][C3_Delete]_vars

\* A listed expense whose category_id points at a category that is gone.
C3_DanglingShownUncategorized ==
    /\ view.op = "expense_list"
    /\ \E i \in 1..Len(view.rows) :
        /\ view.rows[i].category_id # None
        /\ view.rows[i].category_id[1] \notin ids_of(categories)
        /\ view.rows[i].category = SinCategoria
    /\ categories # {}

C9_GroupsAndSums ==
    LET wanted(r) == /\ day_number(view.dfrom) <= iso_number(r.expense_date)
                     /\ iso_number(r.expense_date) <= day_number(view.dto)
        rows == bag_where(expenses, wanted)
        names == {shown_name(r) : r \in BagToSet(rows)}
        grp == view.grp
    IN  /\ {grp[i].category : i \in 1..Len(grp)} = names
        /\ Len(grp) = Cardinality(names)
        /\ \A i \in 1..Len(grp) :
                LET of_name(r) == shown_name(r) = grp[i].category
                IN  grp[i].amount = bag_amount(bag_where(rows, of_name))
        /\ \A i, j \in 1..Len(grp) : i < j => grp[i].amount >= grp[j].amount

\* C9 as stated: the breakdown has one entry per category name of the
\* fetched expenses, each with the sum of that name's amounts, in descending
\* order of the sums, and entries of equal sums keep the order the grouping
\* gave them (a stable sort).
C9_BreakdownStable ==
    view.op = "reports" =>
        /\ C9_GroupsAndSums
        /\ \A i, j \in 1..Len(view.grp) :
                (i < j /\ view.grp[i].amount = view.grp[j].amount)
                    => name_rank(view.grp[i].category) < name_rank(view.grp[j].category)

\* C9, amended: the breakdown has one entry per category name of the fetched
\* expenses, each with the sum of that name's amounts, in descending order
\* of the sums; the order of entries of equal sums is not fixed, the sort
\* being sort_values' default quicksort, which is not stable.
C9_Breakdown == view.op = "reports" => C9_GroupsAndSums

\* Two names, the later in the grouping's order with the larger sum and so
\* first in the breakdown.
C9_LargerSumFirst ==
    /\ view.op = "reports"
    /\ Len(view.grp) = 2
    /\ view.grp[1].amount > view.grp[2].amount
    /\ name_rank(view.grp[1].category) > name_rank(view.grp[2].category)

(***************************************************************************)
(* Properties of the sign-in form (SpecAuth)                               *)
(***************************************************************************)
C10_Rejected ==
    (view.op \in {"sign_in", "sign_up"} /\ ~view.accepted) =>
        /\ auth = view.before
        /\ ~is_logged_in(auth)

C10_Step ==
    /\ (view'.op \in {"sign_in", "sign_up"} /\ ~view'.accepted) => auth' = auth
    /\ (~is_logged_in(auth) /\ is_logged_in(auth')) =>
            /\ view'.op \in {"sign_in", "sign_up"}
            /\ view'.accepted

\* C10: a sign-in or sign-up the Identity Provider rejects leaves the auth
\* state (user, session) as it was before the attempt: a logged-out session
\* stays logged out, and it becomes logged in only by an attempt the
\* provider accepts.
C10_RejectedAttemptKeepsAuth ==
    /\ []C10_Rejected
    /\ [][C10_Step]_vars

\* A rejected sign-in after a sign-out: the entry the sign-out wrote is kept.
C10_RejectedAfterSignOut ==
    /\ view.op = "sign_in"
    /\ ~view.accepted
    /\ auth = Some([user |-> None, session |-> None])

====
